---- MODULE Spec2Model ----
(***************************************************************************)
(* The search controller of scripts/settings.js (class SearchController): *)
(* the multi-worker fetch with fallback and retry, and the per-worker      *)
(* health record it maintains; and the service worker of                   *)
(* scripts/service-worker.js.                                              *)
(*                                                                         *)
(* Time is in milliseconds.  A timer created by setTimeout is modelled by  *)
(* the time left until it fires; time never advances past a pending        *)
(* timer, and a timer fires when its time left is 0.                       *)
(*                                                                         *)
(* The field lastCheck of a health record is written by the code and read  *)
(* nowhere; it is not part of the model.                                   *)
(***************************************************************************)
EXTENDS Integers, Sequences, FiniteSets, TLC

(***************************************************************************)
(* Bounds of the model.                                                    *)
(***************************************************************************)
\* Number of fallback workers modelled (the source lists 5).
NumFallbacks == 1
\* config.maxRetries is drawn from 0..MaxRetriesCfg.
MaxRetriesCfg == 1
\* config.maxRetries is drawn from 0..MaxRetriesLong in SpecRetry.
MaxRetriesLong == 3
\* Number of outcomes recorded before the search of SpecDefault starts.
MaxPrior == 1
\* Number of showConfirm calls in one behaviour.
MaxDialogs == 2
\* Number of showSuggestions calls in one behaviour.
MaxSuggest == 3
\* Number of performSearch calls in one behaviour.
MaxReqs == 2
\* Number of outcomes recorded directly on the tracker in SpecHealth.
MaxOutcomes == 6
\* Number of searches made before the tracked one in SpecHistory.
MaxSearches == 52

(***************************************************************************)
(* Program constants.                                                      *)
(***************************************************************************)
\* config.requestTimeout
RequestTimeout == 15000
\* the delay of the auto-recovery timer, 5 * 60 * 1000
AutoRecoverMs == 300000
\* the base of the backoff delay, 1000 * (retries + 1)
BackoffBaseMs == 1000
\* the maxRetries of the built-in config
DefaultMaxRetries == 3
\* successCount / errorCount at which healthy is set / cleared
HealthThreshold == 3
\* the length the search history is cut to
HistoryLimit == 50

(***************************************************************************)
(* Worker URLs.  0 is the built-in primary, 1..NumFallbacks the fallbacks  *)
(* in list order, CustomUrl a workerUrl loaded from the saved config.      *)
(***************************************************************************)
DefaultPrimary == 0
Fallbacks == [i \in 1..NumFallbacks |-> i]
CustomUrl == NumFallbacks + 1
Urls == 0..CustomUrl

Min(a, b) == IF a < b THEN a ELSE b
Max(a, b) == IF a > b THEN a ELSE b

Reqs == 1..MaxReqs

\* the longest a network call lasts in the model
MaxCallMs == RequestTimeout + BackoffBaseMs
\* how far time advances in one step when no timer is due sooner
StallStep == RequestTimeout + BackoffBaseMs
HealthStep == AutoRecoverMs \div 2

VARIABLES
    primary,         \* this.workers.primary
    maxRetries,      \* this.config.maxRetries
    workerHealth,    \* this.workerHealth, a map url -> health record
    recoveryTimers,  \* url -> time left of each pending auto-recovery timer
    unhealthyAge,    \* url -> time an unhealthy url has been unhealthy for
    applied,         \* url -> number of updateWorkerStatus calls made for it
    outcomes,        \* number of outcomes recorded directly on the tracker
    pc,              \* request -> "idle" | "fetch" | "backoff" | "done"
    idx,             \* request -> position in the workers list of its attempt
    retries,         \* request -> the argument retries of fetchWithFallback
    calls,           \* the network calls in flight
    backoff,         \* request -> time left of its delay() timer
    log,             \* request -> its attempts so far, in order
    waits,           \* request -> the arguments of its delay() calls, in order
    result,          \* request -> what fetchWithFallback returned or threw
    cancelled,       \* request -> its log and waits when it was aborted
    aborted,         \* request -> its AbortController's signal is aborted
    abortController, \* the request owning this.abortController, 0 for null
    isSearching,     \* this.isSearching
    display,         \* what the results container shows
    searchHistory,   \* this.searchHistory
    storedHistory,   \* localStorage 'searchHistory': the array last written
    searches,        \* the number of addToHistory calls made so far
    swState,         \* the service worker: "none", "installed", "activated",
                     \* or "redundant" when its install failed
    cacheStorage,    \* caches: cache name -> the request URLs stored in it
    online,          \* the network is available
    served,          \* the last response of the service worker's fetch handler
    currentSettings, \* SettingsManager.currentSettings
    settingsBackup,  \* localStorage 'settingsBackup': <<>> or one JSON text
    returned,        \* what the last call of restore() returned, "none" when
                     \* the last call on the settings manager was another one
    modals,          \* UIManager.modals: the ids of the modals that are open
    promise,         \* confirm dialog -> the state of the promise that
                     \* showConfirm returned for it, "none" before the call
    confirmResolve,  \* the dialog whose resolve is in window.ui.confirmResolve,
                     \* 0 when the property is not set
    suggesting,      \* showSuggestions call -> "idle" | "fetch" | "done"
    dropdowns        \* the #searchSuggestions elements of the page in document
                     \* order, each named by the call that displayed it

healthVars == <<workerHealth, recoveryTimers, unhealthyAge, applied>>
reqVars == <<pc, idx, retries, calls, backoff, log, waits, result>>
uiVars == <<aborted, cancelled, abortController, isSearching, display>>
historyVars == <<searchHistory, storedHistory, searches>>
controllerVars == <<primary, maxRetries, healthVars, outcomes, reqVars, uiVars,
                    historyVars>>
swVars == <<swState, cacheStorage, online, served>>
settingsVars == <<currentSettings, settingsBackup, returned>>
\* the state outside the search controller
modalVars == <<modals, promise, confirmResolve>>
suggestVars == <<suggesting, dropdowns>>
otherVars == <<swVars, settingsVars, modalVars, suggestVars>>
\* the state outside the service worker
nonSwVars == <<controllerVars, settingsVars, modalVars, suggestVars>>
\* the state outside the settings manager
nonSettingsVars == <<controllerVars, swVars, modalVars, suggestVars>>
\* the state outside the UI manager
nonModalVars == <<controllerVars, swVars, settingsVars, suggestVars>>
\* the state outside the suggestions
nonSuggestVars == <<controllerVars, swVars, settingsVars, modalVars>>
vars == <<controllerVars, otherVars>>

(***************************************************************************)
(* The health tracker: initializeWorkerHealth and updateWorkerStatus.      *)
(***************************************************************************)
\* the record of initializeWorkerHealth, and the default of updateWorkerStatus
FreshHealth ==
    [healthy |-> TRUE, responseTime |-> 0, errorCount |-> 0, successCount |-> 0]

\* responseTime is kept in units of 1/RtScale ms, rounded down
RtScale == 1000

\* [this.workers.primary, ...this.workers.fallbacks]
Workers == <<primary>> \o Fallbacks

\* this.workerHealth.get(url) || { healthy: true, ... }
HealthOf(url) ==
    IF url \in DOMAIN workerHealth THEN workerHealth[url] ELSE FreshHealth

\* a success branch that asks for more than HealthThreshold successes
AfterSuccessLate(h, responseTime) ==
    [healthy      |-> IF h.successCount + 1 > HealthThreshold
                      THEN TRUE ELSE h.healthy,
     successCount |-> h.successCount + 1,
     errorCount   |-> Max(0, h.errorCount - 1),
     responseTime |-> (7 * h.responseTime + 3 * responseTime * RtScale) \div 10]

\* a success branch that takes 2 from errorCount
AfterSuccessDoubleCredit(h, responseTime) ==
    [healthy      |-> IF h.successCount + 1 >= HealthThreshold
                      THEN TRUE ELSE h.healthy,
     successCount |-> h.successCount + 1,
     errorCount   |-> Max(0, h.errorCount - 2),
     responseTime |-> (7 * h.responseTime + 3 * responseTime * RtScale) \div 10]

\* the success branch of updateWorkerStatus
AfterSuccess(h, responseTime) ==
    [healthy      |-> IF h.successCount + 1 >= HealthThreshold
                      THEN TRUE ELSE h.healthy,
     successCount |-> h.successCount + 1,
     errorCount   |-> Max(0, h.errorCount - 1),
     responseTime |-> (7 * h.responseTime + 3 * responseTime * RtScale) \div 10]

\* a failure branch that marks unhealthy one failure early
AfterFailureEarly(h) ==
    [healthy      |-> IF h.errorCount + 1 >= HealthThreshold - 1
                      THEN FALSE ELSE h.healthy,
     errorCount   |-> h.errorCount + 1,
     successCount |-> Max(0, h.successCount - 1),
     responseTime |-> h.responseTime]

\* a failure branch that does not floor the success credit at 0
AfterFailureNoFloor(h) ==
    [healthy      |-> IF h.errorCount + 1 >= HealthThreshold
                      THEN FALSE ELSE h.healthy,
     errorCount   |-> h.errorCount + 1,
     successCount |-> h.successCount - 1,
     responseTime |-> h.responseTime]

\* the failure branch of updateWorkerStatus, without its setTimeout
AfterFailure(h) ==
    [healthy      |-> IF h.errorCount + 1 >= HealthThreshold
                      THEN FALSE ELSE h.healthy,
     errorCount   |-> h.errorCount + 1,
     successCount |-> Max(0, h.successCount - 1),
     responseTime |-> h.responseTime]

\* the timers pending for url after updateWorkerStatus(url, success)
TimersAfter(url, success) ==
    IF success THEN recoveryTimers[url]
    ELSE Append(recoveryTimers[url], AutoRecoverMs)

\* an update that is dropped while another call is in flight
UpdateWorkerStatusLossy(url, success, responseTime) ==
    LET h  == HealthOf(url)
        h2 == IF success THEN AfterSuccess(h, responseTime) ELSE AfterFailure(h)
    IN  IF Cardinality(calls) > 1
        THEN UNCHANGED <<workerHealth, recoveryTimers, unhealthyAge, applied>>
        ELSE /\ workerHealth' =
                    [u \in DOMAIN workerHealth \cup {url} |->
                        IF u = url THEN h2 ELSE workerHealth[u]]
             /\ recoveryTimers' =
                    [recoveryTimers EXCEPT ![url] = TimersAfter(url, success)]
             /\ unhealthyAge' =
                    IF h.healthy /\ ~h2.healthy
                    THEN [unhealthyAge EXCEPT ![url] = 0] ELSE unhealthyAge
             /\ applied' = [applied EXCEPT ![url] = @ + 1]

\* updateWorkerStatus(workerUrl, success, responseTime)
UpdateWorkerStatus(url, success, responseTime) ==
    LET h  == HealthOf(url)
        h2 == IF success THEN AfterSuccess(h, responseTime) ELSE AfterFailure(h)
    IN  /\ workerHealth' =
            [u \in DOMAIN workerHealth \cup {url} |->
                IF u = url THEN h2 ELSE workerHealth[u]]
        /\ recoveryTimers' =
            [recoveryTimers EXCEPT ![url] = TimersAfter(url, success)]
        /\ unhealthyAge' =
            IF h.healthy /\ ~h2.healthy
            THEN [unhealthyAge EXCEPT ![url] = 0] ELSE unhealthyAge
        /\ applied' = [applied EXCEPT ![url] = @ + 1]

\* a callback that resets both counters
AfterTimerResetAll(h) ==
    IF ~h.healthy
    THEN [h EXCEPT !.healthy = TRUE, !.errorCount = 0, !.successCount = 0]
    ELSE h

\* the record of url after its auto-recovery callback ran
AfterTimer(h) ==
    IF ~h.healthy THEN [h EXCEPT !.healthy = TRUE, !.errorCount = 0] ELSE h

\* the callback of the setTimeout of updateWorkerStatus
TimerFire(url) ==
    /\ recoveryTimers[url] # <<>>
    /\ Head(recoveryTimers[url]) = 0
    /\ recoveryTimers' = [recoveryTimers EXCEPT ![url] = Tail(@)]
    /\ workerHealth' =
        [u \in DOMAIN workerHealth |->
            IF u = url THEN AfterTimer(workerHealth[u]) ELSE workerHealth[u]]
    /\ UNCHANGED <<otherVars, historyVars, primary, maxRetries, unhealthyAge, applied, outcomes, reqVars,
                   uiVars>>

\* an outcome recorded directly on the tracker
RecordOutcome(url, success, responseTime) ==
    /\ outcomes < MaxOutcomes
    /\ outcomes' = outcomes + 1
    /\ UpdateWorkerStatus(url, success, responseTime)
    /\ UNCHANGED <<otherVars, historyVars, primary, maxRetries, reqVars, uiVars>>

(***************************************************************************)
(* The fetch with fallback and retry: performSearch, executeSearch,        *)
(* fetchWithFallback, fetchFromWorker.                                     *)
(***************************************************************************)
\* the bodies worker url may answer with: null, {}, {results: ..}, {error: ..};
\* from tells the answers of different workers apart
Bodies(url) ==
    {[from |-> url, falsy |-> TRUE,  keys |-> {}],
     [from |-> url, falsy |-> FALSE, keys |-> {}],
     [from |-> url, falsy |-> FALSE, keys |-> {"results"}],
     [from |-> url, falsy |-> FALSE, keys |-> {"error"}]}

\* a validation that lets an object without keys through
EmptyResponseNullOnly(data) == data.falsy

\* !data || (typeof data === 'object' && Object.keys(data).length === 0)
EmptyResponse(data) == data.falsy \/ data.keys = {}

AllWorkersFailed == [kind |-> "error", message |-> "All workers failed"]
NoResult == [kind |-> "none"]
Returned(data) == [kind |-> "payload", data |-> data]

\* the call that fetchFromWorker(worker, ..) puts in flight
NewCall(r, url) ==
    [req |-> r, url |-> url, phase |-> "headers", elapsed |-> 0, body |-> <<>>]

MarkLast(l, out) == [l EXCEPT ![Len(l)].out = out]

\* the position in the workers list that the for loop tries after position i
NextIndex(i) == i + 1

\* a sweep that does not await: it calls every worker at once
StartSweepRace(r) ==
    /\ idx' = [idx EXCEPT ![r] = 1]
    /\ calls' = calls \cup {NewCall(r, Workers[i]) : i \in 1..Len(Workers)}
    /\ log' = [log EXCEPT ![r] = Append(@, [url |-> Workers[1], out |-> "pending"])]

\* a sweep that starts at the first worker recorded as healthy, if there is one
StartSweepHealthy(r) ==
    LET ok    == {i \in 1..Len(Workers) : HealthOf(Workers[i]).healthy}
        first == IF ok = {} THEN 1 ELSE CHOOSE i \in ok : \A j \in ok : i <= j
    IN  /\ idx' = [idx EXCEPT ![r] = first]
        /\ calls' = calls \cup {NewCall(r, Workers[first])}
        /\ log' = [log EXCEPT ![r] =
                    Append(@, [url |-> Workers[first], out |-> "pending"])]

\* the first iteration of the for loop of fetchWithFallback(.., retries)
StartSweep(r) ==
    /\ idx' = [idx EXCEPT ![r] = 1]
    /\ calls' = calls \cup {NewCall(r, Workers[1])}
    /\ log' = [log EXCEPT ![r] = Append(@, [url |-> Workers[1], out |-> "pending"])]

\* a delay that doubles with every retry
BackoffDelayDoubling(n) == BackoffBaseMs * (2 ^ n)

\* the delay before the retry that follows fetchWithFallback(.., n)
BackoffDelay(n) == BackoffBaseMs * (n + 1)

\* a retry test that is off by one
MayRetryOnceMore(n) == n <= maxRetries

\* retries < maxRetries, in the outer catch of fetchWithFallback
MayRetry(n) == n < maxRetries

\* performSearch(query) with a non-empty query, up to its first await
\* unshift without the limit: the history keeps every entry
WithEntryUnlimited(history, entry) == <<entry>> \o history

\* searchHistory.unshift(entry), then pop() when the length exceeds the limit
WithEntry(history, entry) ==
    IF Len(history) + 1 > HistoryLimit
    THEN SubSeq(<<entry>> \o history, 1, Len(history))
    ELSE <<entry>> \o history

\* addToHistory(query): the entry is stamped with the time of the call, which
\* the number of the call stands for
AddToHistory(query) ==
    /\ searches' = searches + 1
    /\ searchHistory' = WithEntry(searchHistory,
                                  [query |-> query, timestamp |-> searches + 1])
    /\ storedHistory' = searchHistory'

PerformSearch(r) ==
    /\ pc[r] = "idle"
    /\ \A q \in Reqs : q < r => pc[q] # "idle"
    /\ aborted' = IF abortController # 0
                  THEN [aborted EXCEPT ![abortController] = TRUE] ELSE aborted
    /\ cancelled' = IF abortController # 0 /\ pc[abortController] # "done"
                    THEN [cancelled EXCEPT ![abortController] =
                            <<[log |-> log[abortController],
                               waits |-> waits[abortController]]>>]
                    ELSE cancelled
    /\ isSearching' = TRUE
    /\ abortController' = r
    /\ display' = [kind |-> "loading", req |-> r]
    /\ pc' = [pc EXCEPT ![r] = "fetch"]
    /\ AddToHistory(r)
    /\ StartSweep(r)
    /\ UNCHANGED <<otherVars, primary, maxRetries, healthVars, outcomes,
                   retries, backoff, waits, result>>

\* a for loop without its catch: the error of the attempt leaves
\* fetchWithFallback
AttemptFailedRaise(r, c) ==
    /\ UpdateWorkerStatus(c.url, FALSE, 0)
    /\ calls' = calls \ {c}
    /\ log' = [log EXCEPT ![r] = MarkLast(@, "failed")]
    /\ pc' = [pc EXCEPT ![r] = "done"]
    /\ result' = [result EXCEPT ![r] = [kind |-> "error", message |-> "Worker failed"]]
    /\ isSearching' = FALSE
    /\ display' = [kind |-> "error", req |-> r]
    /\ UNCHANGED <<otherVars, historyVars, primary, maxRetries, outcomes, idx, retries, backoff, waits,
                   aborted, cancelled, abortController>>

\* the catch of the for loop of fetchWithFallback, and what follows it until
\* the next await: the next worker, the backoff delay, or the final throw
\* through executeSearch (showError) and performSearch (finally)
AttemptFailed(r, c) ==
    /\ UpdateWorkerStatus(c.url, FALSE, 0)
    /\ IF idx[r] < Len(Workers)
       THEN /\ idx' = [idx EXCEPT ![r] = NextIndex(idx[r])]
            /\ calls' = (calls \ {c}) \cup {NewCall(r, Workers[NextIndex(idx[r])])}
            /\ log' = [log EXCEPT ![r] =
                        Append(MarkLast(@, "failed"),
                               [url |-> Workers[NextIndex(idx[r])], out |-> "pending"])]
            /\ UNCHANGED <<pc, backoff, waits, result, isSearching, display>>
       ELSE /\ calls' = calls \ {c}
            /\ log' = [log EXCEPT ![r] = MarkLast(@, "failed")]
            /\ IF MayRetry(retries[r])
               THEN /\ pc' = [pc EXCEPT ![r] = "backoff"]
                    /\ backoff' = [backoff EXCEPT ![r] = BackoffDelay(retries[r])]
                    /\ waits' = [waits EXCEPT ![r] = Append(@, BackoffDelay(retries[r]))]
                    /\ UNCHANGED <<result, isSearching, display>>
               ELSE /\ pc' = [pc EXCEPT ![r] = "done"]
                    /\ result' = [result EXCEPT ![r] = AllWorkersFailed]
                    /\ isSearching' = FALSE
                    /\ display' = [kind |-> "error", req |-> r]
                    /\ UNCHANGED <<backoff, waits>>
            /\ UNCHANGED idx
    /\ UNCHANGED <<otherVars, historyVars, primary, maxRetries, outcomes, retries, aborted, cancelled,
                   abortController>>

\* a return that keeps only the results of the body
PayloadResultsOnly(data) == Returned([data EXCEPT !.keys = {"results"}])

\* what fetchFromWorker and then fetchWithFallback return for the body data
Payload(data) == Returned(data)

\* the success path of the for loop: updateWorkerStatus(worker, true, time),
\* return response; then executeSearch and the finally of performSearch
AttemptSucceeded(r, c, data) ==
    /\ UpdateWorkerStatus(c.url, TRUE, c.elapsed)
    /\ calls' = calls \ {c}
    /\ log' = [log EXCEPT ![r] = MarkLast(@, "ok")]
    /\ pc' = [pc EXCEPT ![r] = "done"]
    /\ result' = [result EXCEPT ![r] = Payload(data)]
    /\ isSearching' = FALSE
    /\ display' = IF "error" \in data.keys
                  THEN [kind |-> "error", req |-> r]
                  ELSE [kind |-> "results", req |-> r]
    /\ UNCHANGED <<otherVars, historyVars, primary, maxRetries, outcomes, idx, retries, backoff, waits,
                   aborted, cancelled, abortController>>

\* fetch() resolves with a response whose body will be data: clearTimeout; a
\* status outside 200..299 throws, otherwise response.json() is awaited
HeadersArrive(c, ok, data) ==
    /\ c \in calls /\ c.phase = "headers"
    /\ IF ok
       THEN /\ calls' = (calls \ {c})
                \cup {[c EXCEPT !.phase = "body", !.body = <<data>>]}
            /\ UNCHANGED <<otherVars, historyVars, primary, maxRetries, healthVars, outcomes, pc, idx,
                           retries, backoff, log, waits, result, uiVars>>
       ELSE AttemptFailed(c.req, c)

\* fetch() rejects: no connection, or CORS
NetworkError(c) ==
    /\ c \in calls /\ c.phase = "headers"
    /\ AttemptFailed(c.req, c)

\* the timer set by fetchFromWorker fires: controller.abort() rejects fetch()
\* with an AbortError
CallTimeout(c) ==
    /\ c \in calls /\ c.phase = "headers"
    /\ c.elapsed = RequestTimeout
    /\ AttemptFailed(c.req, c)

\* response.json() resolves with the body
BodyArrives(c) ==
    /\ c \in calls /\ c.phase = "body"
    /\ IF EmptyResponse(c.body[1])
       THEN AttemptFailed(c.req, c)
       ELSE AttemptSucceeded(c.req, c, c.body[1])

\* response.json() rejects: the body is not JSON, or the connection broke
BodyError(c) ==
    /\ c \in calls /\ c.phase = "body"
    /\ AttemptFailed(c.req, c)

\* the delay() of the outer catch is over: fetchWithFallback(.., retries + 1)
BackoffDone(r) ==
    /\ pc[r] = "backoff"
    /\ backoff[r] = 0
    /\ retries' = [retries EXCEPT ![r] = retries[r] + 1]
    /\ pc' = [pc EXCEPT ![r] = "fetch"]
    /\ StartSweep(r)
    /\ UNCHANGED <<otherVars, historyVars, primary, maxRetries, healthVars, outcomes, backoff, waits,
                   result, uiVars>>

(***************************************************************************)
(* Time.                                                                   *)
(***************************************************************************)
\* the time left of every pending timer
TimersLeft ==
    {RequestTimeout - c.elapsed : c \in {x \in calls : x.phase = "headers"}}
    \cup {backoff[r] : r \in {x \in Reqs : pc[x] = "backoff"}}
    \cup {Head(recoveryTimers[u]) : u \in {x \in Urls : recoveryTimers[x] # <<>>}}

\* the steps time may take: to the next timer, or by free while none is due
Steps(free) ==
    {d \in TimersLeft : \A t \in TimersLeft : d <= t}
    \cup {d \in {free} : \A t \in TimersLeft : d < t}

SeqMinus(s, d) == [i \in 1..Len(s) |-> s[i] - d]

Tick(d) ==
    /\ d > 0
    /\ \A c \in calls : c.elapsed + d <= MaxCallMs
    /\ calls' = {[c EXCEPT !.elapsed = @ + d] : c \in calls}
    /\ backoff' = [r \in Reqs |-> IF pc[r] = "backoff" THEN backoff[r] - d ELSE backoff[r]]
    /\ recoveryTimers' = [u \in Urls |-> SeqMinus(recoveryTimers[u], d)]
    /\ unhealthyAge' = [u \in Urls |->
            IF HealthOf(u).healthy THEN unhealthyAge[u]
            ELSE Min(AutoRecoverMs, unhealthyAge[u] + d)]
    /\ UNCHANGED <<otherVars, historyVars, primary, maxRetries, workerHealth, applied, outcomes, pc, idx,
                   retries, log, waits, result, uiVars>>

(***************************************************************************)
(* The service worker of scripts/service-worker.js.                        *)
(***************************************************************************)
CACHE_NAME == "yoohoo-cache-v2"
\* the cache of the deploy before this one
OldCacheName == "yoohoo-cache-v1"

STATIC_ASSETS ==
    <<"/", "/index.html", "/main.css", "/components.css", "/themes.css",
      "/search-results.css", "/utils.js", "/ui.js", "/settings.js", "/search.js">>

\* the origin the page is served from; the source does not name it
Origin == "https://yoohoo.example"
\* event.request.url of a request for path
RequestUrl(path) == Origin \o path

\* the paths requested: the static assets, a search call, an API call, and a
\* file that is not in the list
Paths ==
    {STATIC_ASSETS[i] : i \in 1..Len(STATIC_ASSETS)}
        \cup {"/search?q=a", "/api/suggest", "/favicon.ico"}

\* url.includes(part)
Includes(url, part) ==
    \E i \in 1..(Len(url) - Len(part) + 1) : SubSeq(url, i, i + Len(part) - 1) = part

\* url.includes("/search") || url.includes("/api")
NeverCached(url) == Includes(url, "/search") \/ Includes(url, "/api")

\* caches.match(event.request): a match in any cache
CacheMatch(url) == \E n \in DOMAIN cacheStorage : url \in cacheStorage[n]

\* the content of cache name, which caches.open creates when it is missing
Opened(name) == IF name \in DOMAIN cacheStorage THEN cacheStorage[name] ELSE {}

\* cacheStorage after the requests urls were stored in cache name
WithStored(name, urls) ==
    [n \in DOMAIN cacheStorage \cup {name} |->
        IF n = name THEN Opened(name) \cup urls ELSE cacheStorage[n]]

NothingServed == [url |-> "", from |-> "none"]

\* the install handler: cache.addAll(STATIC_ASSETS) stores every asset or, if
\* one of them cannot be fetched (allFetched is false), none
Install(allFetched) ==
    /\ swState = "none"
    /\ allFetched => online
    /\ IF allFetched
       THEN /\ cacheStorage' = WithStored(CACHE_NAME,
                    {RequestUrl(STATIC_ASSETS[i]) : i \in 1..Len(STATIC_ASSETS)})
            /\ swState' = "installed"
       ELSE /\ cacheStorage' = WithStored(CACHE_NAME, {})
            /\ swState' = "redundant"
    /\ UNCHANGED <<nonSwVars, online, served>>

\* an activate handler without the filter: every cache is deleted
ActivateDeleteAll ==
    /\ swState = "installed"
    /\ swState' = "activated"
    /\ cacheStorage' = [n \in {} |-> {}]
    /\ UNCHANGED <<nonSwVars, online, served>>

\* the activate handler: every cache but CACHE_NAME is deleted
Activate ==
    /\ swState = "installed"
    /\ swState' = "activated"
    /\ cacheStorage' = [n \in DOMAIN cacheStorage \cap {CACHE_NAME} |-> cacheStorage[n]]
    /\ UNCHANGED <<nonSwVars, online, served>>

\* the API endpoints of a backend worker that the page calls: the endpoints
\* of executeSearch that the claims name, and /suggest of fetchSuggestions
Endpoints == <<"/search", "/images", "/videos", "/news", "/all", "/suggest">>
\* this.workers.primary
WorkerOrigin == "https://proxy.yoohoo.workers.dev"
\* the URL fetchFromWorker and fetchSuggestions build for an endpoint
BackendUrl(endpoint) == WorkerOrigin \o endpoint \o "?q=a"

\* the fetch handler, for the request url of a page the service worker controls
Respond(url) ==
        /\ swState = "activated"
        /\ IF NeverCached(url)
           THEN /\ served' = [url |-> url, from |-> IF online THEN "network" ELSE "error"]
                /\ UNCHANGED cacheStorage
           ELSE IF CacheMatch(url)
           THEN /\ served' = [url |-> url, from |-> "cache"]
                /\ UNCHANGED cacheStorage
           ELSE IF online
           THEN /\ served' = [url |-> url, from |-> "network"]
                /\ cacheStorage' = WithStored(CACHE_NAME, {url})
           ELSE /\ served' = [url |-> url, from |-> "error"]
                /\ UNCHANGED cacheStorage
        /\ UNCHANGED <<nonSwVars, swState, online>>

\* the page requests a file of its own origin
Fetch(path) == Respond(RequestUrl(path))

\* the page calls an endpoint of a backend worker
FetchBackend(endpoint) == Respond(BackendUrl(endpoint))

\* the network goes away or comes back
NetworkChange ==
    /\ online' = ~online
    /\ UNCHANGED <<nonSwVars, swState, cacheStorage, served>>

(***************************************************************************)
(* The settings manager of scripts/settings.js (class SettingsManager):    *)
(* set, setMultiple, backup, restore.  Two of the settings are modelled.   *)
(***************************************************************************)
Languages == {"en", "de"}
Themes == {"light", "dark"}
SettingsSpace == [language : Languages, theme : Themes]
defaultSettings == [language |-> "en", theme |-> "light"]

\* JSON.stringify(settings)
Stringify(settings) ==
    "{\"language\":\"" \o settings.language
        \o "\",\"theme\":\"" \o settings.theme \o "\"}"

\* JSON.parse(text).settings, for a text that backup() wrote
ParseSettings(text) ==
    CHOOSE settings \in SettingsSpace : Stringify(settings) = text.settings

Alphabet == "abcdefghijklmnopqrstuvwxyz"
\* str.charCodeAt(i - 1)
CharCodeAt(str, i) ==
    LET ch == SubSeq(str, i, i)
    IN  IF \E k \in 1..Len(Alphabet) : SubSeq(Alphabet, k, k) = ch
        THEN 96 + (CHOOSE k \in 1..Len(Alphabet) : SubSeq(Alphabet, k, k) = ch)
        ELSE IF ch = "{" THEN 123
        ELSE IF ch = "}" THEN 125
        ELSE IF ch = ":" THEN 58
        ELSE IF ch = "," THEN 44
        ELSE 34

\* hash = ((hash << 5) - hash) + char; hash = hash & hash: 31 * hash + char
\* in 32 bits, kept as the two 16-bit halves <<high, low>>
HashStep(hash, char) ==
    LET low == 31 * hash[2] + char
    IN  <<(31 * hash[1] + (low \div 65536)) % 65536, low % 65536>>

RECURSIVE HashFrom(_, _, _)
HashFrom(str, i, hash) ==
    IF i > Len(str) THEN hash
    ELSE HashFrom(str, i + 1, HashStep(hash, CharCodeAt(str, i)))

\* generateChecksum(): the hash of the settings that are current now
generateChecksum == HashFrom(Stringify(currentSettings), 1, <<0, 0>>)

\* validateChecksum(data)
validateChecksum(data) == data.checksum = generateChecksum

\* set(key, value), for each of the two keys
SetLanguage(value) ==
    /\ currentSettings' = [currentSettings EXCEPT !.language = value]
    /\ returned' = "none"
    /\ UNCHANGED <<nonSettingsVars, settingsBackup>>

SetTheme(value) ==
    /\ currentSettings' = [currentSettings EXCEPT !.theme = value]
    /\ returned' = "none"
    /\ UNCHANGED <<nonSettingsVars, settingsBackup>>

\* setMultiple(settings), with a value for each of the two keys
SetMultiple(settings) ==
    /\ currentSettings' = settings
    /\ returned' = "none"
    /\ UNCHANGED <<nonSettingsVars, settingsBackup>>

\* backup()
Backup ==
    /\ settingsBackup' = <<[settings |-> Stringify(currentSettings),
                            checksum |-> generateChecksum]>>
    /\ returned' = "none"
    /\ UNCHANGED <<nonSettingsVars, currentSettings>>

\* restore()
Restore ==
    /\ IF settingsBackup = <<>>
       THEN returned' = "false" /\ UNCHANGED currentSettings
       ELSE IF validateChecksum(settingsBackup[1])
       THEN /\ currentSettings' = ParseSettings(settingsBackup[1])
            /\ returned' = "true"
       ELSE returned' = "false" /\ UNCHANGED currentSettings
    /\ UNCHANGED <<nonSettingsVars, settingsBackup>>

(***************************************************************************)
(* The suggestions of the search controller: showSuggestions,              *)
(* displaySuggestions, removeSuggestions.                                  *)
(***************************************************************************)
\* the showSuggestions calls with a query of 2 characters or more, in the
\* order in which the debounced input handler makes them
SuggestCalls == 1..MaxSuggest

\* the dropdowns after removeSuggestions(): getElementById finds the first
\* element with the id, and it is removed
AfterRemoveSuggestions == IF dropdowns = <<>> THEN <<>> ELSE Tail(dropdowns)

\* the dropdowns after displaySuggestions(..) of call k: appendChild
AfterDisplaySuggestions(k) == Append(dropdowns, k)

\* showSuggestions(query) up to its await
ShowSuggestions(k) ==
    /\ suggesting[k] = "idle"
    /\ \A j \in SuggestCalls : j < k => suggesting[j] # "idle"
    /\ dropdowns' = AfterRemoveSuggestions
    /\ suggesting' = [suggesting EXCEPT ![k] = "fetch"]
    /\ UNCHANGED nonSuggestVars

\* fetchSuggestions(query) of call k returns, with suggestions or with an
\* empty list
SuggestionsArrive(k, some) ==
    /\ suggesting[k] = "fetch"
    /\ suggesting' = [suggesting EXCEPT ![k] = "done"]
    /\ dropdowns' = IF some THEN AfterDisplaySuggestions(k) ELSE dropdowns
    /\ UNCHANGED nonSuggestVars

(***************************************************************************)
(* The modals of scripts/ui.js (class UIManager): showModal, closeModal,   *)
(* closeAllModals, showConfirm, handleConfirm.                             *)
(***************************************************************************)
\* the confirm dialogs, in the order of their showConfirm calls; each has an
\* id of its own ('confirm-dialog-' + Utils.generateId())
Dialogs == 1..MaxDialogs
\* the id of a modal that is not a confirm dialog
OtherModal == 0

\* this.modals after closeModal(id)
AfterCloseModal(id) == modals \ {id}
\* this.modals after closeAllModals()
AfterCloseAllModals == {}

\* showModal(id) for a modal that is not a confirm dialog
ShowModal ==
    /\ modals' = AfterCloseAllModals \cup {OtherModal}
    /\ UNCHANGED <<nonModalVars, promise, confirmResolve>>

\* showConfirm(message), whose dialog is d
ShowConfirm(d) ==
    /\ promise[d] = "none"
    /\ \A e \in Dialogs : e < d => promise[e] # "none"
    /\ promise' = [promise EXCEPT ![d] = "pending"]
    /\ modals' = AfterCloseAllModals \cup {d}
    /\ confirmResolve' = d
    /\ UNCHANGED nonModalVars

\* the promise of dialog d after its resolve was called with value
Resolved(d, value) == IF promise[d] = "pending" THEN value ELSE promise[d]

\* handleConfirm(id, result): a click on the OK or Cancel button of dialog d
HandleConfirm(d, value) ==
    /\ d \in modals
    /\ modals' = AfterCloseModal(d)
    /\ IF confirmResolve # 0
       THEN /\ promise' = [promise EXCEPT ![confirmResolve] =
                                Resolved(confirmResolve, value)]
            /\ confirmResolve' = 0
       ELSE UNCHANGED <<promise, confirmResolve>>
    /\ UNCHANGED nonModalVars

\* the Escape key: closeAllModals()
Escape ==
    /\ modals' = AfterCloseAllModals
    /\ UNCHANGED <<nonModalVars, promise, confirmResolve>>

\* a click on the overlay of modal id: closeModal(id)
OverlayClick(id) ==
    /\ id \in modals
    /\ modals' = AfterCloseModal(id)
    /\ UNCHANGED <<nonModalVars, promise, confirmResolve>>

(***************************************************************************)
(* The state after the constructor: initializeWorkerHealth, then loadConfig *)
(* which may replace the primary by a saved workerUrl and maxRetries by a   *)
(* saved value.  this.updateWorkerHealth() is not defined: the call throws  *)
(* and loadConfig's catch swallows it, so a saved workerUrl gets no record. *)
(***************************************************************************)
Loaded ==
    /\ primary \in {DefaultPrimary, CustomUrl}
    /\ workerHealth = [u \in {DefaultPrimary} \cup {Fallbacks[i] : i \in 1..NumFallbacks}
                        |-> FreshHealth]
    /\ recoveryTimers = [u \in Urls |-> <<>>]
    /\ unhealthyAge = [u \in Urls |-> 0]
    /\ applied = [u \in Urls |-> 0]
    /\ outcomes = 0
    /\ pc = [r \in Reqs |-> "idle"]
    /\ idx = [r \in Reqs |-> 0]
    /\ retries = [r \in Reqs |-> 0]
    /\ calls = {}
    /\ backoff = [r \in Reqs |-> 0]
    /\ log = [r \in Reqs |-> <<>>]
    /\ waits = [r \in Reqs |-> <<>>]
    /\ result = [r \in Reqs |-> NoResult]
    /\ cancelled = [r \in Reqs |-> <<>>]
    /\ aborted = [r \in Reqs |-> FALSE]
    /\ abortController = 0
    /\ isSearching = FALSE
    /\ display = [kind |-> "hero", req |-> 0]
    /\ searchHistory = <<>>
    /\ storedHistory = <<>>
    /\ searches = 0
    /\ swState = "none"
    /\ cacheStorage = [n \in {OldCacheName} |-> {RequestUrl("/")}]
    /\ online = TRUE
    /\ served = NothingServed
    /\ currentSettings = defaultSettings
    /\ settingsBackup = <<>>
    /\ returned = "none"
    /\ modals = {}
    /\ promise = [d \in Dialogs |-> "none"]
    /\ confirmResolve = 0
    /\ suggesting = [k \in SuggestCalls |-> "idle"]
    /\ dropdowns = <<>>

Init == maxRetries \in 0..MaxRetriesCfg /\ Loaded

\* time passes while a call is in flight (to the next timer, or by StallStep
\* when no timer is due sooner), or to the next timer while none is
Pass ==
    \/ \E d \in Steps(StallStep) : calls # {} /\ Tick(d)
    \/ \E d \in Steps(0) : calls = {} /\ Tick(d)

\* one search: a single performSearch and everything that follows from it
Next ==
    \/ PerformSearch(1)
    \/ \E c \in calls, ok \in BOOLEAN : \E data \in Bodies(c.url) :
            HeadersArrive(c, ok, data)
    \/ \E c \in calls : NetworkError(c)
    \/ \E c \in calls : CallTimeout(c)
    \/ \E c \in calls : BodyArrives(c)
    \/ \E c \in calls : BodyError(c)
    \/ \E r \in Reqs : BackoffDone(r)
    \/ \E u \in Urls : TimerFire(u)
    \/ Pass

Spec == Init /\ [][Next]_vars

\* one search, with every timer firing when it is due: time goes on, and the
\* callbacks of setTimeout run; the workers answer or not as they like
TimersFire ==
    /\ WF_vars(Pass)
    /\ WF_vars(\E c \in calls : CallTimeout(c))
    /\ WF_vars(\E r \in Reqs : BackoffDone(r))
    /\ WF_vars(\E u \in Urls : TimerFire(u))

SpecLive == Init /\ [][Next]_vars /\ TimersFire

\* overlapping searches: a performSearch may start while earlier ones are in
\* progress; time passes from timer to timer
NextOverlap ==
    \/ \E r \in Reqs : PerformSearch(r)
    \/ \E c \in calls, ok \in BOOLEAN : \E data \in Bodies(c.url) :
            HeadersArrive(c, ok, data)
    \/ \E c \in calls : NetworkError(c)
    \/ \E c \in calls : CallTimeout(c)
    \/ \E c \in calls : BodyArrives(c)
    \/ \E c \in calls : BodyError(c)
    \/ \E r \in Reqs : BackoffDone(r)
    \/ \E u \in Urls : TimerFire(u)
    \/ \E d \in Steps(0) : Tick(d)

SpecOverlap == Init /\ [][NextOverlap]_vars

\* one search with a saved maxRetries of up to MaxRetriesLong; time passes from
\* timer to timer
InitRetry == maxRetries \in 0..MaxRetriesLong /\ Loaded

NextRetry ==
    \/ PerformSearch(1)
    \/ \E c \in calls, ok \in BOOLEAN : \E data \in Bodies(c.url) :
            HeadersArrive(c, ok, data)
    \/ \E c \in calls : NetworkError(c)
    \/ \E c \in calls : CallTimeout(c)
    \/ \E c \in calls : BodyArrives(c)
    \/ \E c \in calls : BodyError(c)
    \/ \E r \in Reqs : BackoffDone(r)
    \/ \E u \in Urls : TimerFire(u)
    \/ \E d \in Steps(0) : Tick(d)

SpecRetry == InitRetry /\ [][NextRetry]_vars

\* the settings manager alone
NextSettings ==
    \/ \E value \in Languages : SetLanguage(value)
    \/ \E value \in Themes : SetTheme(value)
    \/ \E settings \in SettingsSpace : SetMultiple(settings)
    \/ Backup
    \/ Restore

SpecSettings == Init /\ [][NextSettings]_vars

\* the modals alone
NextModals ==
    \/ ShowModal
    \/ \E d \in Dialogs : ShowConfirm(d)
    \/ \E d \in Dialogs, value \in {"true", "false"} : HandleConfirm(d, value)
    \/ Escape
    \/ \E id \in modals : OverlayClick(id)

SpecModals == Init /\ [][NextModals]_vars

\* the suggestions alone
NextSuggest ==
    \/ \E k \in SuggestCalls : ShowSuggestions(k)
    \/ \E k \in SuggestCalls, some \in BOOLEAN : SuggestionsArrive(k, some)

SpecSuggest == Init /\ [][NextSuggest]_vars

\* the service worker alone
NextSW ==
    \/ \E allFetched \in BOOLEAN : Install(allFetched)
    \/ Activate
    \/ \E path \in Paths : Fetch(path)
    \/ \E i \in 1..Len(Endpoints) : FetchBackend(Endpoints[i])
    \/ NetworkChange

SpecSW == Init /\ [][NextSW]_vars

\* the response time recorded directly on the tracker
RtChoices == {RequestTimeout \div 10}

\* the workers outcomes are recorded on directly: the primary and the first
\* fallback
Tracked == {Workers[1], Workers[2]}

\* how far time advances in one step before the search of SpecDefault starts
PriorStep == AutoRecoverMs - RequestTimeout

\* an outcome that an earlier search left on the tracker
PriorOutcome(url, success, responseTime) ==
    /\ pc[1] = "idle"
    /\ outcomes < MaxPrior
    /\ RecordOutcome(url, success, responseTime)

\* the query of the searches made before the tracked ones
PriorQuery == 0

\* the history entry that an earlier search left
PriorSearch ==
    /\ \A r \in Reqs : pc[r] = "idle"
    /\ searches < MaxSearches
    /\ AddToHistory(PriorQuery)
    /\ UNCHANGED <<otherVars, primary, maxRetries, healthVars, outcomes, reqVars,
                   uiVars>>

\* one search after any number of earlier ones
NextHistory ==
    \/ PriorSearch
    \/ PerformSearch(1)
    \/ \E c \in calls, ok \in BOOLEAN : \E data \in Bodies(c.url) :
            HeadersArrive(c, ok, data)
    \/ \E c \in calls : NetworkError(c)
    \/ \E c \in calls : CallTimeout(c)
    \/ \E c \in calls : BodyArrives(c)
    \/ \E c \in calls : BodyError(c)
    \/ \E r \in Reqs : BackoffDone(r)
    \/ \E u \in Urls : TimerFire(u)
    \/ Pass

SpecHistory == Init /\ [][NextHistory]_vars

\* one search with the built-in maxRetries, after outcomes of earlier searches;
\* time passes by PriorStep or to the next timer before the search, and from
\* timer to timer during it
InitDefault == maxRetries = DefaultMaxRetries /\ Loaded

NextDefault ==
    \/ \E u \in Tracked, s \in BOOLEAN, t \in RtChoices : PriorOutcome(u, s, t)
    \/ PerformSearch(1)
    \/ \E c \in calls, ok \in BOOLEAN : \E data \in Bodies(c.url) :
            HeadersArrive(c, ok, data)
    \/ \E c \in calls : NetworkError(c)
    \/ \E c \in calls : CallTimeout(c)
    \/ \E c \in calls : BodyArrives(c)
    \/ \E c \in calls : BodyError(c)
    \/ \E r \in Reqs : BackoffDone(r)
    \/ \E u \in Urls : TimerFire(u)
    \/ \E d \in Steps(IF pc[1] = "idle" THEN PriorStep ELSE 0) : Tick(d)

SpecDefault == InitDefault /\ [][NextDefault]_vars

InitHealth == Init /\ maxRetries = MaxRetriesCfg

\* the tracker alone, under every sequence of outcomes and timer firings
NextHealth ==
    \/ \E u \in Tracked, s \in BOOLEAN, t \in RtChoices : RecordOutcome(u, s, t)
    \/ \E u \in Urls : TimerFire(u)
    \/ \E d \in Steps(HealthStep) : Tick(d)

SpecHealth == InitHealth /\ [][NextHealth]_vars

(***************************************************************************)
(* Properties.                                                             *)
(***************************************************************************)
\* the worker a request attempts as its i-th attempt when it sweeps the list
\* in priority order, sweep after sweep
SweepUrl(i) == Workers[((i - 1) % Len(Workers)) + 1]
InFixedOrder(l) == \A i \in 1..Len(l) : l[i].url = SweepUrl(i)
AllFailed(l) == \A i \in 1..Len(l) : l[i].out = "failed"
CallsOf(r) == {c \in calls : c.req = r}

\* C1: a request ends with the aggregate error exactly when maxRetries + 1
\* full sweeps of the worker list, Len(Workers) * (maxRetries + 1) attempts in
\* all, have been made and every one of them has failed.
C1_AllFailedSweeps ==
    \A r \in Reqs :
        LET total == Len(Workers) * (maxRetries + 1)
        IN  /\ result[r] = AllWorkersFailed =>
                 /\ Len(log[r]) = total
                 /\ AllFailed(log[r])
                 /\ InFixedOrder(log[r])
            /\ (Len(log[r]) = total /\ AllFailed(log[r])) =>
                 result[r] = AllWorkersFailed
            /\ Len(log[r]) <= total

C1_Witness ==
    \E r \in Reqs : result[r] = AllWorkersFailed /\ maxRetries >= 1

\* C2: when a request returns a payload, the worker that answered is the last
\* one attempted, every attempt before it failed, no call of the request is
\* left in flight, no backoff wait was started after it, the payload is the
\* body that worker's call delivered, and nothing of the request changes
\* afterwards.
C2_ShortCircuit ==
    /\ [](\A r \in Reqs : result[r].kind = "payload" =>
            LET k == Len(log[r])
            IN  /\ k >= 1
                /\ log[r][k] = [url |-> result[r].data.from, out |-> "ok"]
                /\ \A i \in 1..(k - 1) : log[r][i].out = "failed"
                /\ InFixedOrder(log[r])
                /\ CallsOf(r) = {}
                /\ pc[r] = "done"
                /\ Len(waits[r]) = (k - 1) \div Len(Workers))
    /\ [][\A r \in Reqs :
            (result[r] = NoResult /\ result'[r].kind = "payload") =>
                \E c \in CallsOf(r) :
                    /\ c.phase = "body"
                    /\ c.url = SweepUrl(Len(log[r]))
                    /\ result'[r].data = c.body[1]]_vars
    /\ [][\A r \in Reqs : result[r].kind = "payload" =>
            /\ result'[r] = result[r]
            /\ log'[r] = log[r]
            /\ waits'[r] = waits[r]]_vars

C2_Witness ==
    \E r \in Reqs :
        /\ result[r].kind = "payload"
        /\ Len(log[r]) % Len(Workers) # 0
        /\ "error" \in result[r].data.keys

\* C3: a request has at most one call in flight, its attempts go through the
\* worker list in priority order sweep after sweep, and every attempt before
\* the latest one has failed.
C3_Sequential ==
    \A r \in Reqs :
        LET l == log[r]
            k == Len(l)
        IN  /\ Cardinality(CallsOf(r)) <= 1
            /\ InFixedOrder(l)
            /\ \A i \in 1..(k - 1) : l[i].out = "failed"
            /\ \A c \in CallsOf(r) :
                    k >= 1 /\ l[k].out = "pending" /\ c.url = l[k].url
            /\ (k >= 1 /\ l[k].out = "pending") => CallsOf(r) # {}

C3_Witness ==
    \E r \in Reqs : Len(log[r]) > Len(Workers) /\ CallsOf(r) # {}

\* C4: no call in flight has lasted longer than the per-call timeout.
C4_TimeoutBound ==
    \A c \in calls : c.elapsed <= RequestTimeout

\* C5: a request aborted while in progress does not end with the aggregate
\* error, and the attempt that was in flight when it was aborted never gets
\* an outcome recorded.
C5_CancelledOutcome ==
    \A r \in Reqs : cancelled[r] # <<>> =>
        LET was == cancelled[r][1].log
            k   == Len(was)
        IN  /\ result[r] # AllWorkersFailed
            /\ (k >= 1 /\ was[k].out = "pending") => log[r][k].out = "pending"

\* C6: a request aborted while in progress makes no attempt, starts no backoff
\* wait and records no outcome after the abort.
C6_NothingAfterCancel ==
    \A r \in Reqs : cancelled[r] # <<>> =>
        /\ log[r] = cancelled[r][1].log
        /\ waits[r] = cancelled[r][1].waits

\* a step that records a failure on u schedules one more timer for u; the
\* step in which a timer of u fires removes one
FailureRecorded(u) == Len(recoveryTimers'[u]) = Len(recoveryTimers[u]) + 1
TimerFired(u) == Len(recoveryTimers'[u]) = Len(recoveryTimers[u]) - 1
SuccessRecorded(u) == HealthOf(u)'.successCount = HealthOf(u).successCount + 1

\* C7: healthy goes from true to false only in a step that records a failure
\* on that url and leaves its errorCount at 3 or more.
C7_OnlyFailuresMarkUnhealthy ==
    [][\A u \in Urls :
        (HealthOf(u).healthy /\ ~HealthOf(u)'.healthy) =>
            /\ FailureRecorded(u)
            /\ HealthOf(u)'.errorCount = HealthOf(u).errorCount + 1
            /\ HealthOf(u)'.errorCount >= 3]_vars

C7_Witness ==
    \E u \in Urls : ~HealthOf(u).healthy /\ HealthOf(u).errorCount >= 3

\* C8: a timer sets an unhealthy url back to healthy only when the url has
\* been unhealthy for the whole 5 minutes.
C8_GracePeriod ==
    [][\A u \in Urls :
        (TimerFired(u) /\ ~HealthOf(u).healthy /\ HealthOf(u)'.healthy) =>
            unhealthyAge[u] >= AutoRecoverMs]_vars

\* C9: a success that leaves successCount at 3 or more leaves the url healthy.
C9_SuccessCreditHeals ==
    [][\A u \in Urls :
        (SuccessRecorded(u) /\ HealthOf(u)'.successCount >= 3) =>
            HealthOf(u)'.healthy]_vars

\* three failures, no timer fired since, then three successes
C9_Witness ==
    \E u \in Urls :
        /\ HealthOf(u).healthy
        /\ HealthOf(u).successCount >= 3
        /\ HealthOf(u).errorCount = 0
        /\ Len(recoveryTimers[u]) >= 3
        /\ \A i \in 1..Len(recoveryTimers[u]) : recoveryTimers[u][i] > 0

\* C10: a timer firing for an unhealthy url sets healthy and clears errorCount
\* and leaves successCount and responseTime; firing for a healthy url it
\* leaves the record as it is; the records of the other urls do not change.
C10_TimerFrame ==
    [][\A u \in Urls : TimerFired(u) =>
        /\ DOMAIN workerHealth' = DOMAIN workerHealth
        /\ \A v \in DOMAIN workerHealth \ {u} : workerHealth'[v] = workerHealth[v]
        /\ u \in DOMAIN workerHealth =>
            IF ~workerHealth[u].healthy
            THEN workerHealth'[u] =
                    [healthy      |-> TRUE,
                     errorCount   |-> 0,
                     successCount |-> workerHealth[u].successCount,
                     responseTime |-> workerHealth[u].responseTime]
            ELSE workerHealth'[u] = workerHealth[u]]_vars

\* a url a timer has recovered with its success credit and response time left
C10_Witness ==
    \E u \in Urls :
        /\ HealthOf(u).healthy
        /\ unhealthyAge[u] > 0
        /\ HealthOf(u).errorCount = 0
        /\ HealthOf(u).successCount \in 1..2
        /\ HealthOf(u).responseTime > 0

\* a step in which updateWorkerStatus ran for u
OutcomeRecorded(u) == applied'[u] = applied[u] + 1

\* C11: errorCount and successCount of every record are never negative; a
\* recorded success adds 1 to successCount and takes 1 from errorCount, a
\* recorded failure adds 1 to errorCount and takes 1 from successCount, both
\* stopping at 0, and the counts of every other url stay as they are.
C11_Credits ==
    /\ [](\A u \in DOMAIN workerHealth :
            workerHealth[u].errorCount >= 0 /\ workerHealth[u].successCount >= 0)
    /\ [][\A u \in Urls : OutcomeRecorded(u) =>
            /\ ~FailureRecorded(u) =>
                /\ HealthOf(u)'.successCount = HealthOf(u).successCount + 1
                /\ HealthOf(u)'.errorCount = Max(0, HealthOf(u).errorCount - 1)
            /\ FailureRecorded(u) =>
                /\ HealthOf(u)'.errorCount = HealthOf(u).errorCount + 1
                /\ HealthOf(u)'.successCount = Max(0, HealthOf(u).successCount - 1)
            /\ \A v \in Urls \ {u} :
                /\ HealthOf(v)'.errorCount = HealthOf(v).errorCount
                /\ HealthOf(v)'.successCount = HealthOf(v).successCount]_vars

\* a success and then two failures: the second failure finds successCount 0
C11_Witness ==
    \E u \in Urls :
        /\ applied[u] = 3
        /\ HealthOf(u).errorCount = 2
        /\ HealthOf(u).successCount = 0

\* C12: the first success recorded on a fresh record sets responseTime to the
\* response time of that call; a later success sets it to 0.7 times the old
\* value plus 0.3 times the new response time; a failure leaves it.
C12_SmoothedTime ==
    /\ [][\A c \in calls :
            (c \notin calls' /\ OutcomeRecorded(c.url) /\ ~FailureRecorded(c.url)) =>
                IF applied[c.url] = 0
                THEN HealthOf(c.url)'.responseTime = c.elapsed * RtScale
                ELSE HealthOf(c.url)'.responseTime =
                        (7 * HealthOf(c.url).responseTime
                            + 3 * c.elapsed * RtScale) \div 10]_vars
    /\ [][\A u \in Urls : FailureRecorded(u) =>
            HealthOf(u)'.responseTime = HealthOf(u).responseTime]_vars

AttemptFails(r) ==
    /\ Len(log[r]) >= 1
    /\ log[r][Len(log[r])].out = "pending"
    /\ log'[r][Len(log[r])].out = "failed"
\* the latest attempt of r is in flight now and has succeeded after the step
AttemptSucceeds(r) ==
    /\ Len(log[r]) >= 1
    /\ log[r][Len(log[r])].out = "pending"
    /\ log'[r][Len(log[r])].out = "ok"
\* the step ends the call c without changing it to another phase
CallEnds(c) == \A d \in calls' : d.req = c.req => d.url # c.url \/ d.phase = "headers"

\* C14: an attempt succeeds only with a body that is neither empty nor
\* unparsable on a success status; an attempt that ends in any other way
\* records exactly one failure on its worker and on no other, and unless it
\* was the last of its sweep the request goes on with the next worker and
\* nothing is thrown.
C14_ErrorsAlike ==
    /\ [][\A r \in Reqs : AttemptSucceeds(r) =>
            \E c \in CallsOf(r) :
                /\ c.phase = "body"
                /\ ~c.body[1].falsy /\ c.body[1].keys # {}]_vars
    /\ [][\A c \in calls :
            (c.phase = "body" /\ CallEnds(c)
                /\ (c.body[1].falsy \/ c.body[1].keys = {})) =>
                    AttemptFails(c.req)]_vars
    /\ [][\A r \in Reqs : AttemptFails(r) =>
            LET k == Len(log[r])
                u == log[r][k].url
            IN  /\ OutcomeRecorded(u) /\ FailureRecorded(u)
                /\ \A v \in Urls \ {u} : applied'[v] = applied[v]
                /\ k % Len(Workers) # 0 =>
                    /\ result'[r] = NoResult
                    /\ pc'[r] = "fetch"
                    /\ log'[r][k + 1] = [url |-> SweepUrl(k + 1), out |-> "pending"]
                    /\ CallsOf(r)' = {NewCall(r, SweepUrl(k + 1))}
                /\ k % Len(Workers) = 0 =>
                    /\ Len(log'[r]) = k
                    /\ CallsOf(r)' = {}
                    /\ pc'[r] \in {"backoff", "done"}
                    /\ pc'[r] = "backoff" <=> result'[r] = NoResult]_vars

\* the first worker has failed and the second is being called
C14_Witness ==
    \E r \in Reqs :
        /\ Len(log[r]) = 2
        /\ log[r][1].out = "failed" /\ log[r][2].out = "pending"
        /\ applied[log[r][1].url] = 1 /\ applied[log[r][2].url] = 0
        /\ result[r] = NoResult
        /\ CallsOf(r) # {}

\* C15: whatever the health records say, the i-th attempt of a request is on
\* the i-th worker of the list, sweep after sweep; a sweep ends early only
\* with a success, and a request stops only after a success or a full sweep.
C15_HealthNeverGates ==
    /\ [](\A r \in Reqs :
            /\ \A i \in 1..Len(log[r]) : log[r][i].url = SweepUrl(i)
            /\ \A c \in CallsOf(r) : c.url = SweepUrl(Len(log[r]))
            /\ (pc[r] \in {"backoff", "done"} /\ result[r].kind # "payload") =>
                    Len(log[r]) % Len(Workers) = 0)
    /\ [][\A r \in Reqs : Len(log'[r]) # Len(log[r]) =>
            /\ Len(log'[r]) = Len(log[r]) + 1
            /\ NewCall(r, SweepUrl(Len(log'[r]))) \in calls'
            /\ Len(log[r]) % Len(Workers) # 0 => AttemptFails(r)]_vars

\* both workers are recorded as unhealthy, the primary has been attempted
\* all the same and the fallback is being called
C15_Witness ==
    \E r \in Reqs : \E c \in CallsOf(r) :
        /\ c.url = Workers[Len(Workers)]
        /\ \A i \in 1..Len(Workers) : ~HealthOf(Workers[i]).healthy

\* C16: the only error fetchWithFallback throws is 'All workers failed', and
\* it throws it in the step in which the last attempt of the last sweep
\* fails; a failing attempt before that leaves the request without a result.
C16_OnlyAggregateError ==
    /\ [](\A r \in Reqs : result[r].kind = "error" =>
            /\ result[r].message = "All workers failed"
            /\ pc[r] = "done")
    /\ [][\A r \in Reqs : AttemptFails(r) =>
            IF Len(log[r]) = Len(Workers) * (maxRetries + 1)
            THEN result'[r].kind = "error"
            ELSE result'[r] = NoResult]_vars
    /\ [][\A r \in Reqs : result'[r].kind = "error" =>
            \/ result[r] = result'[r]
            \/ /\ AttemptFails(r)
               /\ Len(log[r]) = Len(Workers) * (maxRetries + 1)]_vars

\* three attempts have failed and the request goes on without a result
C16_Witness ==
    \E r \in Reqs :
        /\ Len(log[r]) > 3
        /\ \A i \in 1..3 : log[r][i].out = "failed"
        /\ result[r] = NoResult
        /\ pc[r] = "fetch"

\* C17: every request that was started ends, with a payload or with the
\* aggregate error, when the timers fire.
C17_Terminates ==
    \A r \in Reqs : (pc[r] # "idle") ~> (pc[r] = "done")

\* a request that was started ends or comes to wait for a response body
EndsOrAwaitsBody ==
    \A r \in Reqs :
        (pc[r] # "idle") ~> (pc[r] = "done" \/ \E c \in CallsOf(r) : c.phase = "body")

\* the attempts on u that have ended, over all requests
Completed(u) ==
    UNION {{<<r, i>> : i \in {j \in 1..Len(log[r]) :
                                log[r][j].url = u /\ log[r][j].out # "pending"}} :
           r \in Reqs}

\* C18: for every url, updateWorkerStatus has run as many times as attempts
\* on it have ended, over all requests; the step that ends an attempt runs it
\* once for the url of that attempt, and it runs in no other step.
C18_OneOutcomePerAttempt ==
    /\ [](\A u \in Urls : applied[u] = Cardinality(Completed(u)))
    /\ [][\A r \in Reqs : (AttemptFails(r) \/ AttemptSucceeds(r)) =>
            /\ OutcomeRecorded(log[r][Len(log[r])].url)
            /\ \A v \in Urls \ {log[r][Len(log[r])].url} : applied'[v] = applied[v]]_vars
    /\ [][\A u \in Urls : applied'[u] # applied[u] =>
            \E r \in Reqs :
                /\ AttemptFails(r) \/ AttemptSucceeds(r)
                /\ log[r][Len(log[r])].url = u]_vars

\* two requests in progress have each ended an attempt on the same url, the
\* later request first
C18_Witness ==
    \E u \in Urls :
        /\ <<1, 1>> \in Completed(u) /\ <<2, 1>> \in Completed(u)
        /\ pc[1] = "fetch" /\ pc[2] = "fetch"
        /\ Len(log[1]) = 2 /\ Len(log[2]) = 3
        /\ applied[u] = 2

\* C19: every worker a sweep can attempt, the primary and every fallback, has
\* a health record, and a record no outcome has been recorded on holds the
\* defaults.
C19_EveryWorkerHasRecord ==
    \A i \in 1..Len(Workers) :
        /\ Workers[i] \in DOMAIN workerHealth
        /\ applied[Workers[i]] = 0 => workerHealth[Workers[i]] = FreshHealth

\* C20: the service worker answers a request for an asset of STATIC_ASSETS
\* from the cache, whether the network is available or not.
C20_AssetsFromCache ==
    \A i \in 1..Len(STATIC_ASSETS) :
        served.url = RequestUrl(STATIC_ASSETS[i]) => served.from = "cache"

\* C21: a call of a backend endpoint is answered from the network (or fails
\* with it), never from a cache, and no cache holds a response to one.
C21_BackendNeverCached ==
    \A i \in 1..Len(Endpoints) :
        /\ served.url = BackendUrl(Endpoints[i]) => served.from \in {"network", "error"}
        /\ \A n \in DOMAIN cacheStorage : BackendUrl(Endpoints[i]) \notin cacheStorage[n]

\* C22: what the results container shows (the loading state, results or an
\* error) belongs to the search that was started last.
C22_LatestSearchShown ==
    abortController # 0 => display.req = abortController

\* the performSearch calls that have started and not yet returned
InProgress == {r \in Reqs : pc[r] \in {"fetch", "backoff"}}

\* C23: isSearching is true exactly while a performSearch call is in
\* progress.
C23_IsSearching ==
    isSearching <=> InProgress # {}

\* C24: the errorCount of a url whose healthy flag is false is at least 1.
C24_UnhealthyHasFailureCredit ==
    \A u \in Urls : ~HealthOf(u).healthy => HealthOf(u).errorCount >= 1

\* an unhealthy url that two successes have brought down to errorCount 1
C24_Witness ==
    \E u \in Urls :
        /\ ~HealthOf(u).healthy
        /\ HealthOf(u).errorCount = 1
        /\ HealthOf(u).successCount = 2

\* C25: with maxRetries = 3, the step in which a request ends with the
\* aggregate error leaves every worker unhealthy.
C25_AllUnhealthyAtFailure ==
    [][\A r \in Reqs :
        (maxRetries = 3 /\ result[r] = NoResult /\ result'[r] = AllWorkersFailed) =>
            \A i \in 1..Len(Workers) : ~HealthOf(Workers[i])'.healthy]_vars

\* C26: once backup() has been called, restore() returns true and leaves
\* currentSettings equal to the settings that were current at the backup.
C26_RestoreRoundTrip ==
    (settingsBackup # <<>> /\ returned # "none") =>
        /\ returned = "true"
        /\ Stringify(currentSettings) = settingsBackup[1].settings

\* the confirm dialogs that were shown and are closed
ClosedDialogs == {d \in Dialogs : promise[d] # "none" /\ d \notin modals}

\* C27: the promise of a confirm dialog that is closed is resolved, with
\* true or false.
C27_ClosedIsResolved ==
    \A d \in ClosedDialogs : promise[d] \in {"true", "false"}

\* the promise of a dialog that was closed without being resolved stays
\* pending whatever happens next
ClosedStaysPending ==
    [][\A d \in ClosedDialogs : promise[d] = "pending" => promise'[d] = "pending"]_vars

\* the latest showSuggestions call made so far
LatestSuggest ==
    CHOOSE k \in SuggestCalls \cup {0} :
        /\ k # 0 => suggesting[k] # "idle"
        /\ \A j \in SuggestCalls : j > k => suggesting[j] = "idle"

AtMostOneDropdown == Len(dropdowns) <= 1
DropdownIsLatest == \A i \in 1..Len(dropdowns) : dropdowns[i] = LatestSuggest

\* C28: the page holds at most one suggestions dropdown, and a dropdown it
\* holds shows the suggestions of the latest showSuggestions call.
C28_OneDropdown ==
    AtMostOneDropdown /\ DropdownIsLatest

(***************************************************************************)
(* The search history.                                                     *)
(***************************************************************************)
HistoryBounded == Len(searchHistory) <= HistoryLimit

\* every entry is newer than the entries behind it
NewestFirst ==
    \A i, j \in 1..Len(searchHistory) :
        i < j => searchHistory[i].timestamp > searchHistory[j].timestamp

\* a call of addToHistory puts its entry in front of the entries there were,
\* of which the last is dropped when there were HistoryLimit of them
EntryInserted ==
    /\ Len(searchHistory') = IF Len(searchHistory) < HistoryLimit
                             THEN Len(searchHistory) + 1 ELSE HistoryLimit
    /\ searchHistory'[1].timestamp = searches'
    /\ \A i \in 2..Len(searchHistory') : searchHistory'[i] = searchHistory[i - 1]

HistoryStep ==
    /\ searches' # searches => EntryInserted
    /\ searches' = searches => searchHistory' = searchHistory
    /\ \A r \in Reqs :
          pc[r] = "idle" /\ pc'[r] # "idle"
              => searches' = searches + 1 /\ searchHistory'[1].query = r

\* C29: the search history never holds more than 50 entries and is ordered
\* newest first; each performSearch puts its entry at the front, and the oldest
\* entry is dropped when the length would exceed 50.
C29_HistoryNewestFirst ==
    [](HistoryBounded /\ NewestFirst) /\ [][HistoryStep]_vars

\* the search was made with a full history: its entry is at the front, and
\* the entries of the two oldest searches are gone
C29_Witness ==
    /\ pc[1] # "idle"
    /\ Len(searchHistory) = HistoryLimit
    /\ searchHistory[1] = [query |-> 1, timestamp |-> HistoryLimit + 2]
    /\ searchHistory[HistoryLimit].timestamp = 3

(***************************************************************************)
(* Activation of the service worker.                                       *)
(***************************************************************************)
\* the step that completes the activation
ActivateStep ==
    swState # "activated" /\ swState' = "activated"
        => /\ \A n \in DOMAIN cacheStorage :
                n # CACHE_NAME => n \notin DOMAIN cacheStorage'
           /\ CACHE_NAME \in DOMAIN cacheStorage
           /\ CACHE_NAME \in DOMAIN cacheStorage'
           /\ cacheStorage'[CACHE_NAME] = cacheStorage[CACHE_NAME]

\* C30: when the activate step completes, every cache with a name other than
\* CACHE_NAME has been deleted and the cache CACHE_NAME is kept with its
\* entries; it is the only cache from then on.
C30_OnlyCurrentCacheLeft ==
    /\ [][ActivateStep]_vars
    /\ [](swState = "activated" => DOMAIN cacheStorage = {CACHE_NAME})

\* the worker is activated: the cache of the earlier version is gone and the
\* current one holds the static assets
C30_Witness ==
    /\ swState = "activated"
    /\ OldCacheName \notin DOMAIN cacheStorage
    /\ CACHE_NAME \in DOMAIN cacheStorage
    /\ \A i \in 1..Len(STATIC_ASSETS) :
          RequestUrl(STATIC_ASSETS[i]) \in cacheStorage[CACHE_NAME]

====
